---- MODULE Spec2Model ----
(***************************************************************************)
(* ASPL content monitoring: the fingerprinter (src/utils.py), the Store    *)
(* (src/monitor_service.py), the ContentCache (src/cache.py), the refresh  *)
(* sweep (src/refresher.py), the webhook dispatcher (src/webhook.py) and   *)
(* the HTTP handlers that drive them (src/main.py).                        *)
(*                                                                         *)
(* Conventions: timestamps are integer seconds and NoTime stands for None; *)
(* strings that matter character by character (title, main_text) are      *)
(* sequences over Alphabet; a sha256 digest is represented by the string   *)
(* it was computed from (the digest is taken as collision-free), and       *)
(* NoHash stands for a hash of None.                                       *)
(***************************************************************************)
EXTENDS Integers, Sequences, FiniteSets, TLC

VARIABLES
    articles,         \* fingerprinter harness: the pair of articles under comparison
    digests,          \* fingerprinter harness: their hashes and the classification
    use_redis,        \* MonitorService.use_redis / CacheService.use_redis
    redis_ok,         \* environment: whether a Redis command issued now succeeds
    redis_timeline,   \* Redis ZSET "events:timeline": the set of stored events
    memory_events,    \* MonitorService.memory_events: a list of events
    redis_monitor,    \* Redis keys "monitor:{id}": id -> MonitoredSource
    redis_monitor_ids,\* Redis set "monitors:ids"
    memory_store,     \* MonitorService.memory_store: dict id -> MonitoredSource, in insertion order
    redis_subscriber, \* Redis keys "subscriber:{id}": id -> Subscriber
    redis_subscriber_ids, \* Redis set "subscribers:ids"
    memory_subscribers,   \* MonitorService.memory_subscribers: dict id -> Subscriber
    redis_cache,      \* Redis keys "{url}": url -> article
    memory_cache,     \* CacheService.memory_cache: dict url -> article
    writes,           \* store harness: number of writes made
    pending,          \* store harness: the last write that fell back to memory
    dispatch,         \* per caller: the trigger_webhooks call in progress
    streak,           \* per subscriber: consecutive failed deliveries (raised or non-2xx)
    clock,            \* wall-clock time, seconds
    wake,             \* when the sleep of periodic_refresh ends
    sweep,            \* per task: the refresh_monitored_sources_task call in progress
    ret               \* the last call made: its name, arguments, outcome and return value

hashVars == <<articles, digests>>
envVars == <<use_redis, redis_ok>>
eventVars == <<redis_timeline, memory_events>>
sourceVars == <<redis_monitor, redis_monitor_ids, memory_store>>
subVars == <<redis_subscriber, redis_subscriber_ids, memory_subscribers>>
cacheVars == <<redis_cache, memory_cache>>
harnessVars == <<writes, pending>>
dispatchVars == <<dispatch, streak>>
sweepVars == <<clock, wake, sweep>>
vars == <<articles, digests, use_redis, redis_ok, redis_timeline, memory_events,
          redis_monitor, redis_monitor_ids, memory_store,
          redis_subscriber, redis_subscriber_ids, memory_subscribers,
          redis_cache, memory_cache, writes, pending, dispatch, streak, clock, wake,
          sweep, ret>>

-----------------------------------------------------------------------------
(* Bounds *)

MaxLen == 1        \* longest title / main_text, in characters
MaxStamp == 2      \* fetch timestamps 1..MaxStamp in the fingerprinter harness
MaxEvents == 3     \* events appended in the event-store harness
MaxEventTime == 3  \* detected_at values 1..MaxEventTime in the event-store harness
MaxLimit == 2      \* limit arguments 0..MaxLimit
MaxWrites == 2     \* writes made in the store harness and the scheduler harness
TicksPerTTL == 3   \* clock ticks that make up MONITOR_DEFAULT_TTL
MaxTicks == 4      \* clock ticks in the scheduler harness
MaxUnsubscribes == 1 \* deletions made while dispatches overlap

-----------------------------------------------------------------------------
(* Values *)

NoTime == 0 - 1
NoHash == << >>

Alphabet == {"a", "|"}

RECURSIVE StrsOfLen(_)
StrsOfLen(n) ==
    IF n = 0 THEN {<< >>}
    ELSE {Append(s, c) : s \in StrsOfLen(n - 1), c \in Alphabet}

Strs == UNION {StrsOfLen(n) : n \in 0..MaxLen}

Summaries == {"s1", "s2"}

\* Two digests (of the contents ("a", "") and ("", "a")).
H1 == <<"a", "|">>
H2 == <<"|", "a">>

\* URLs are sequences of characters (startswith is decided on them).
U1 == <<"u", "1">>
U2 == <<"u", "2">>
Urls == {U1, U2}

SourceIds == {1, 2}
SubIds == {1, 2}

UrlOf(id) == IF id = 1 THEN U1 ELSE U2

\* ArticleSchema (the fields the monitoring pipeline reads or that the
\* fingerprint must ignore).
ArticleSchema(url, title, main_text, summary, fetched_at) ==
    [type |-> "article", url |-> url, title |-> title, main_text |-> main_text,
     summary |-> summary, fetched_at |-> fetched_at]

\* GeneralPageSchema: no main_text attribute.
GeneralPageSchema(url, title, description, fetched_at) ==
    [type |-> "general_page", url |-> url, title |-> title,
     description |-> description, fetched_at |-> fetched_at]

-----------------------------------------------------------------------------
(* Fingerprinter: src/utils.py *)

\* hashlib.sha256(...).hexdigest(), taken as collision-free: the digest is
\* represented by its preimage.
Sha256(s) == s

\* f"{article.title}|{article.main_text}"
ContentStr(article) == article.title \o <<"|">> \o article.main_text

\* getattr on main_text raises AttributeError for a GeneralPageSchema.
HashRaises(article) == article.type # "article"

\* A fingerprint that also covers a field outside (title, main_text).
compute_content_hash_with_summary(article) ==
    Sha256(ContentStr(article) \o <<article.summary>>)

compute_content_hash(article) == Sha256(ContentStr(article))

\* The three-way branch of the sweep on (stored hash, new hash).
Classify(stored_hash, new_hash) ==
    IF stored_hash = NoHash THEN "FirstCheck"
    ELSE IF new_hash # stored_hash THEN "Changed"
    ELSE "Unchanged"

-----------------------------------------------------------------------------
(* Fingerprinter harness: two articles drawn from the bounded sets, then    *)
(* hashed, then the second classified against the hash of the first.       *)

HashArticles ==
    {ArticleSchema(<<"u">>, t, m, s, f) :
        t \in Strs, m \in Strs, s \in Summaries, f \in 1..MaxStamp}

NotComputed == [done |-> FALSE, a |-> NoHash, b |-> NoHash, class |-> "none"]

InitHashVars ==
    /\ articles = <<ArticleSchema(<<"u">>, << >>, << >>, "s1", 1),
                    ArticleSchema(<<"u">>, << >>, << >>, "s1", 1)>>
    /\ digests = NotComputed

InitHashPairs ==
    /\ articles \in {<<a, b>> : a \in HashArticles, b \in HashArticles}
    /\ digests = NotComputed

ComputeHashes ==
    /\ ~digests.done
    /\ digests' = [done |-> TRUE,
                   a |-> compute_content_hash(articles[1]),
                   b |-> compute_content_hash(articles[2]),
                   class |-> Classify(compute_content_hash(articles[1]),
                                      compute_content_hash(articles[2]))]
    /\ UNCHANGED <<articles, use_redis, redis_ok, eventVars, sourceVars, subVars,
                   cacheVars, harnessVars, dispatchVars, sweepVars, ret>>

-----------------------------------------------------------------------------
(* Store, change events: src/monitor_service.py                             *)
(*                                                                         *)
(* A Redis command issued while redis_ok holds succeeds, one issued while  *)
(* it does not raises. An event's ZSET member is its JSON text, which      *)
(* parsing turns back into an equal, detached event: a member             *)
(* is represented by the event record. A score is the event's detected_at  *)
(* in microseconds (datetime's resolution).                                *)

NoArticle == [type |-> "none"]

NoCall == [op |-> "none"]

ChangeEvent(id, url, source_id, detected_at, old_hash, new_hash) ==
    [id |-> id, url |-> url, source_id |-> source_id, detected_at |-> detected_at,
     old_hash |-> old_hash, new_hash |-> new_hash,
     change_type |-> "content_updated", current_article |-> NoArticle]

Range(seq) == {seq[i] : i \in 1..Len(seq)}

Min(a, b) == IF a <= b THEN a ELSE b

\* seq[:n] for n >= 0.
Take(seq, n) == SubSeq(seq, 1, Min(n, Len(seq)))

\* datetime.timestamp(), in microseconds.
Timestamp(t) == t * 1000000

\* ZSET order: by score, members of equal score in lexicographic order of the
\* member text, which starts with the event's id.
ZLeq(x, y) ==
    \/ Timestamp(x.detected_at) < Timestamp(y.detected_at)
    \/ /\ Timestamp(x.detected_at) = Timestamp(y.detected_at)
       /\ x.id <= y.id

RECURSIVE ZOrder(_)
ZOrder(S) ==
    IF S = {} THEN << >>
    ELSE LET m == CHOOSE x \in S : \A y \in S : ZLeq(x, y)
         IN <<m>> \o ZOrder(S \ {m})

Reverse(seq) == [i \in 1..Len(seq) |-> seq[Len(seq) + 1 - i]]

\* ZRANGEBYSCORE key min +inf
zrangebyscore(zset, min_score) ==
    ZOrder({e \in zset : Timestamp(e.detected_at) >= min_score})

\* ZREVRANGE key start stop: indexes into the descending order; a negative
\* stop counts from the end (-1 is the last element).
zrevrange(zset, start, stop) ==
    LET desc == Reverse(ZOrder(zset))
        last == IF stop < 0 THEN Len(desc) + stop ELSE Min(stop, Len(desc) - 1)
    IN SubSeq(desc, start + 1, last + 1)

\* list.sort(key=detected_at) / sorted(.., key=detected_at): stable, ascending.
RECURSIVE SortAsc(_)
SortAsc(seq) ==
    IF seq = << >> THEN << >>
    ELSE LET i == CHOOSE k \in 1..Len(seq) :
                    /\ \A j \in 1..Len(seq) : seq[k].detected_at <= seq[j].detected_at
                    /\ \A j \in 1..(k - 1) : seq[j].detected_at > seq[k].detected_at
         IN <<seq[i]>> \o SortAsc(SubSeq(seq, 1, i - 1) \o SubSeq(seq, i + 1, Len(seq)))

\* sorted(.., key=detected_at, reverse=True): stable, descending (elements of
\* equal key keep their order).
RECURSIVE SortDesc(_)
SortDesc(seq) ==
    IF seq = << >> THEN << >>
    ELSE LET i == CHOOSE k \in 1..Len(seq) :
                    /\ \A j \in 1..Len(seq) : seq[k].detected_at >= seq[j].detected_at
                    /\ \A j \in 1..(k - 1) : seq[j].detected_at < seq[k].detected_at
         IN <<seq[i]>> \o SortDesc(SubSeq(seq, 1, i - 1) \o SubSeq(seq, i + 1, Len(seq)))

SelectSeqAfter(seq, since) ==
    LET Later(e) == e.detected_at > since IN SelectSeq(seq, Later)

\* add_change_event, the Redis branch when the command succeeds.
RedisAddEvent(zset, event) == zset \cup {event}

\* An except branch that only logs.
FallbackAddEvent_dropped(list, event) == list

\* add_change_event, the except branch: append, no sort.
FallbackAddEvent(list, event) == Append(list, event)

\* add_change_event, the in-memory branch: append, then sort.
MemoryAddEvent(list, event) == SortAsc(Append(list, event))

\* get_change_events, the Redis branch.
RedisGetEvents(zset, limit, since) ==
    IF since # NoTime
    THEN LET raw_events == zrangebyscore(zset, Timestamp(since) + 1)
         IN IF Len(raw_events) > limit THEN Take(raw_events, limit) ELSE raw_events
    ELSE zrevrange(zset, 0, limit - 1)

\* get_change_events, the memory implementation.
MemoryGetEvents(list, limit, since) ==
    LET filtered == IF since # NoTime THEN SelectSeqAfter(list, since) ELSE list
    IN Take(SortDesc(filtered), limit)

\* What get_change_events(limit, since_time) returns in the current state.
get_change_events(limit, since) ==
    IF use_redis /\ redis_ok
    THEN RedisGetEvents(redis_timeline, limit, since)
    ELSE MemoryGetEvents(memory_events, limit, since)

Backend == IF use_redis /\ redis_ok THEN "redis" ELSE "memory"

AddChangeEvent(event) ==
    /\ IF use_redis
       THEN IF redis_ok
            THEN /\ redis_timeline' = RedisAddEvent(redis_timeline, event)
                 /\ UNCHANGED memory_events
            ELSE /\ memory_events' = FallbackAddEvent(memory_events, event)
                 /\ UNCHANGED redis_timeline
       ELSE /\ memory_events' = MemoryAddEvent(memory_events, event)
            /\ UNCHANGED redis_timeline
    /\ ret' = [op |-> "add_change_event", arg |-> event,
               redis_failed |-> (use_redis /\ ~redis_ok)]

GetChangeEvents(limit, since) ==
    /\ ret' = [op |-> "get_change_events", limit |-> limit, since |-> since,
               backend |-> Backend, redis_failed |-> (use_redis /\ ~redis_ok),
               val |-> get_change_events(limit, since)]
    /\ UNCHANGED eventVars

\* The Redis server (or the connection to it) goes away / comes back.
RedisFail ==
    /\ use_redis /\ redis_ok
    /\ redis_ok' = FALSE
    /\ UNCHANGED <<use_redis, hashVars, eventVars, sourceVars, subVars, cacheVars,
                   writes, ret>>
    /\ UNCHANGED <<pending, dispatchVars, sweepVars>>

RedisRecover ==
    /\ use_redis /\ ~redis_ok
    /\ redis_ok' = TRUE
    /\ pending' = NoCall
    /\ UNCHANGED <<use_redis, hashVars, eventVars, sourceVars, subVars, cacheVars,
                   writes, dispatchVars, sweepVars, ret>>

-----------------------------------------------------------------------------
(* Store, sources and subscribers: src/monitor_service.py; ContentCache:    *)
(* src/cache.py.                                                           *)
(*                                                                         *)
(* A Python dict is a sequence of its values in insertion order; a Redis   *)
(* key space is a function from the keys that exist. A call's failpoint fp *)
(* says which of its Redis commands raises: 0 none, 1 the first (Redis is  *)
(* down when the call starts), k > 1 the k-th (Redis goes down during the  *)
(* call).                                                                  *)

\* A datetime is its UTC wall-clock reading in seconds plus whether it is
\* naive (tzinfo None); tz_naive belongs to last_checked_at.
MonitoredSource(id, url, last_checked_at, last_content_hash) ==
    [id |-> id, url |-> url, last_checked_at |-> last_checked_at,
     tz_naive |-> FALSE, last_content_hash |-> last_content_hash]

\* The same source with last_checked_at stripped of its timezone.
WithNaiveCheckedAt(source) == [source EXCEPT !.tz_naive = TRUE]

NoFilter == << >>

Subscriber(id, callback_url, url_prefix_filter, failure_count, is_active) ==
    [id |-> id, callback_url |-> callback_url,
     url_prefix_filter |-> url_prefix_filter,
     failure_count |-> failure_count, is_active |-> is_active]

\* d[key] = value for a dict of records keyed by id.
DictPut(d, rec) ==
    IF \E i \in 1..Len(d) : d[i].id = rec.id
    THEN [i \in 1..Len(d) |-> IF d[i].id = rec.id THEN rec ELSE d[i]]
    ELSE Append(d, rec)

\* if key in d: del d[key]
DictDel(d, id) ==
    LET Other(r) == r.id # id IN SelectSeq(d, Other)

\* Redis SET key value / DEL key on a key space.
KeySet(keys, k, v) == [x \in DOMAIN keys \cup {k} |-> IF x = k THEN v ELSE keys[x]]
KeyDel(keys, k) == [x \in DOMAIN keys \ {k} |-> keys[x]]

Orderings(S) == {seq \in [1..Cardinality(S) -> S] : Range(seq) = S}

\* The outcome fp of a call that issues up to n Redis commands.
FailpointOk(fp, n) ==
    IF use_redis
    THEN /\ fp \in 0..n
         /\ (fp = 1) = ~redis_ok
    ELSE fp = 0

RedisAfter(fp) == IF fp > 1 THEN FALSE ELSE redis_ok

\* add_source / add_subscriber: SET then SADD; the except branch writes the
\* dict; without Redis the dict is written.
PutRecord(keys, ids, dict, rec, fp) ==
    [keys |-> IF use_redis /\ fp # 1 THEN KeySet(keys, rec.id, rec) ELSE keys,
     ids |-> IF use_redis /\ fp = 0 THEN ids \cup {rec.id} ELSE ids,
     dict |-> IF use_redis /\ fp = 0 THEN dict ELSE DictPut(dict, rec)]

\* delete_source / delete_subscriber: DEL then SREM; the except branch
\* deletes from the dict; without Redis the dict entry is deleted.
DeleteRecord(keys, ids, dict, id, fp) ==
    [keys |-> IF use_redis /\ fp # 1 THEN KeyDel(keys, id) ELSE keys,
     ids |-> IF use_redis /\ fp = 0 THEN ids \ {id} ELSE ids,
     dict |-> IF use_redis /\ fp = 0 THEN dict ELSE DictDel(dict, id)]

\* get_all_sources / get_all_subscribers when every Redis command succeeds:
\* SMEMBERS, then GET per id, keeping the ids that have data; the set's
\* iteration order is any.
RedisListings(keys, ids) ==
    Orderings({keys[i] : i \in ids \cap DOMAIN keys})

\* An except branch that returns an empty list.
MemoryListing_empty(dict) == << >>

\* The except branch and the branch without Redis: list(dict.values()).
MemoryListing(dict) == dict

\* What get_all_sources / get_all_subscribers may return with failpoint fp.
Listings(keys, ids, dict, fp) ==
    IF use_redis /\ fp = 0 THEN RedisListings(keys, ids) ELSE {MemoryListing(dict)}

AddSource(source, fp) ==
    LET new == PutRecord(redis_monitor, redis_monitor_ids, memory_store, source, fp)
    IN /\ FailpointOk(fp, 2)
       /\ redis_monitor' = new.keys
       /\ redis_monitor_ids' = new.ids
       /\ memory_store' = new.dict
       /\ redis_ok' = RedisAfter(fp)

DeleteSource(id, fp) ==
    LET new == DeleteRecord(redis_monitor, redis_monitor_ids, memory_store, id, fp)
    IN /\ FailpointOk(fp, 2)
       /\ redis_monitor' = new.keys
       /\ redis_monitor_ids' = new.ids
       /\ memory_store' = new.dict
       /\ redis_ok' = RedisAfter(fp)

\* get_all_sources: fp = 0 all commands succeed, 1 SMEMBERS raises, 2 a
\* later GET raises.
GetAllSources(listing, fp) ==
    /\ FailpointOk(fp, 2)
    /\ fp = 2 => redis_monitor_ids # {}
    /\ listing \in Listings(redis_monitor, redis_monitor_ids, memory_store, fp)
    /\ redis_ok' = RedisAfter(fp)

AddSubscriber(sub, fp) ==
    LET new == PutRecord(redis_subscriber, redis_subscriber_ids, memory_subscribers,
                         sub, fp)
    IN /\ FailpointOk(fp, 2)
       /\ redis_subscriber' = new.keys
       /\ redis_subscriber_ids' = new.ids
       /\ memory_subscribers' = new.dict
       /\ redis_ok' = RedisAfter(fp)

\* update_subscriber: "same as add since it overwrites".
UpdateSubscriber(sub, fp) == AddSubscriber(sub, fp)

DeleteSubscriber(id, fp) ==
    LET new == DeleteRecord(redis_subscriber, redis_subscriber_ids,
                            memory_subscribers, id, fp)
    IN /\ FailpointOk(fp, 2)
       /\ redis_subscriber' = new.keys
       /\ redis_subscriber_ids' = new.ids
       /\ memory_subscribers' = new.dict
       /\ redis_ok' = RedisAfter(fp)

GetAllSubscribers(listing, fp) ==
    /\ FailpointOk(fp, 2)
    /\ fp = 2 => redis_subscriber_ids # {}
    /\ listing \in Listings(redis_subscriber, redis_subscriber_ids,
                             memory_subscribers, fp)
    /\ redis_ok' = RedisAfter(fp)

\* ArticleSchema(**json.loads(data)): a cached GeneralPageSchema has neither
\* main_text nor word_count, and the validation raises.
ParsesAsArticle(data) == data.type = "article"

\* set_article: one SET; the except branch and the branch without Redis
\* write the dict.
SetArticle(url, article) ==
    IF use_redis /\ redis_ok
    THEN /\ redis_cache' = KeySet(redis_cache, url, article)
         /\ UNCHANGED memory_cache
    ELSE /\ memory_cache' = KeySet(memory_cache, url, article)
         /\ UNCHANGED redis_cache

\* What get_article(url) returns in the current state (NoArticle for None).
get_article(url) ==
    IF use_redis /\ redis_ok /\ url \notin DOMAIN redis_cache
    THEN NoArticle
    ELSE IF use_redis /\ redis_ok /\ ParsesAsArticle(redis_cache[url])
    THEN redis_cache[url]
    ELSE IF url \in DOMAIN memory_cache THEN memory_cache[url]
    ELSE NoArticle

\* The loop of list_changes over the events it got: an event whose URL has
\* a cached article gets it as current_article.
Enriched(event) ==
    IF get_article(event.url) # NoArticle
    THEN [event EXCEPT !.current_article = get_article(event.url)]
    ELSE event

\* The memory implementation of get_change_events returns the ChangeEvent
\* objects of memory_events themselves; the Redis branch parses new ones.
SharesStoredEvents == ~(use_redis /\ redis_ok)

\* GET /changes: get_change_events, then with include_uas the assignment of
\* current_article on each returned event.
ListChanges(limit, since, include_uas) ==
    LET events == get_change_events(limit, since)
    IN /\ ret' = [op |-> "list_changes", limit |-> limit, since |-> since,
                  include_uas |-> include_uas,
                  val |-> IF include_uas
                          THEN [i \in DOMAIN events |-> Enriched(events[i])]
                          ELSE events]
       /\ memory_events' =
             IF include_uas /\ SharesStoredEvents
             THEN [i \in DOMAIN memory_events |->
                     IF memory_events[i] \in Range(events)
                     THEN Enriched(memory_events[i]) ELSE memory_events[i]]
             ELSE memory_events
       /\ UNCHANGED redis_timeline

InitSourceVars ==
    /\ redis_monitor = << >>
    /\ redis_monitor_ids = {}
    /\ memory_store = << >>

InitSubVars ==
    /\ redis_subscriber = << >>
    /\ redis_subscriber_ids = {}
    /\ memory_subscribers = << >>

InitCacheVars ==
    /\ redis_cache = << >>
    /\ memory_cache = << >>

InitHarnessVars ==
    /\ writes = 0
    /\ pending = NoCall

-----------------------------------------------------------------------------
(* WebhookDispatcher: src/webhook.py                                        *)
(*                                                                         *)
(* trigger_webhooks reads the subscribers, creates one notify coroutine    *)
(* per active subscriber and awaits them with asyncio.gather: each runs to *)
(* its POST and is resumed when the POST completes, in any order. A        *)
(* listing served from memory_subscribers holds the stored objects         *)
(* themselves (shared), one read from Redis holds detached copies.         *)

\* The callers of trigger_webhooks the harnesses drive: one alone, and a
\* second one whose call overlaps the first's.
Dispatchers == {"harness", "overlap"}

FailureThreshold == 5

\* What the awaited client.post(..) may do: return a response (whatever its
\* status: raise_for_status is not called) or raise.
PostOutcomes == {"2xx", "non_2xx", "timeout"}

PostRaises(outcome) == outcome = "timeout"

\* event.url.startswith(prefix)
StartsWith(url, prefix) ==
    /\ Len(prefix) <= Len(url)
    /\ SubSeq(url, 1, Len(prefix)) = prefix

\* A filter check that lets every event through.
FilterRejects_never(sub, event) == FALSE

\* notify_single_subscriber's filter check: a None or empty filter is falsy.
FilterRejects(sub, event) ==
    /\ sub.url_prefix_filter # NoFilter
    /\ ~StartsWith(event.url, sub.url_prefix_filter)

IdleDispatch ==
    [pc |-> "idle", event |-> NoCall, subs |-> << >>, shared |-> FALSE,
     posting |-> {}, attempted |-> {}]

\* A dispatcher that awaits one notify coroutine before it creates the next:
\* only the first accepted subscriber has a POST under way.
BeginDispatch_sequential(event, listing, shared) ==
    LET Active(sub) == sub.is_active
        subs == SelectSeq(listing, Active)
        accepted == {i \in 1..Len(subs) : ~FilterRejects(subs[i], event)}
        posting == {i \in accepted : \A j \in accepted : i <= j}
    IN [pc |-> IF posting = {} THEN "idle" ELSE "gather",
        event |-> event, subs |-> subs, shared |-> shared,
        posting |-> posting, attempted |-> {subs[i].id : i \in posting}]

\* trigger_webhooks up to the await of gather: the coroutines of the active
\* subscribers, of which those whose filter accepts the event start a POST.
BeginDispatch(event, listing, shared) ==
    LET Active(sub) == sub.is_active
        subs == SelectSeq(listing, Active)
        posting == {i \in 1..Len(subs) : ~FilterRejects(subs[i], event)}
    IN [pc |-> IF posting = {} THEN "idle" ELSE "gather",
        event |-> event, subs |-> subs, shared |-> shared,
        posting |-> posting, attempted |-> {subs[i].id : i \in posting}]

\* The subscriber object a notify coroutine holds: the stored object when the
\* listing was served from memory and the dict still holds it.
Held(local, shared, dict) ==
    LET InDict(k) == dict[k].id = local.id
    IN IF shared /\ \E k \in 1..Len(dict) : InDict(k)
       THEN dict[CHOOSE k \in 1..Len(dict) : InDict(k)]
       ELSE local

HeldSubscriber(d, i) ==
    Held(dispatch[d].subs[i], dispatch[d].shared, memory_subscribers)

\* The except branch of notify_single_subscriber.
AfterFailure(sub) ==
    [sub EXCEPT !.failure_count = sub.failure_count + 1,
                !.is_active = IF sub.failure_count + 1 >= FailureThreshold
                              THEN FALSE ELSE sub.is_active]

\* The success path of notify_single_subscriber.
AfterSuccess(sub) == [sub EXCEPT !.failure_count = 0]

\* Whether the coroutine calls update_subscriber after the POST.
Persists(sub, outcome) == PostRaises(outcome) \/ sub.failure_count > 0

\* A mutation of a shared object shows in the dict that holds it.
MutateShared(dict, shared, rec) ==
    IF shared /\ \E k \in 1..Len(dict) : dict[k].id = rec.id
    THEN DictPut(dict, rec) ELSE dict

Bump(n) == Min(n + 1, FailureThreshold + 1)

\* The POST of coroutine i of dispatch d completes with outcome; the rest of
\* notify_single_subscriber runs, update_subscriber with failpoint fp.
DeliveryComplete(d, i, outcome, fp) ==
    LET sub == HeldSubscriber(d, i)
        new == IF PostRaises(outcome) THEN AfterFailure(sub) ELSE AfterSuccess(sub)
        put == PutRecord(redis_subscriber, redis_subscriber_ids,
                         MutateShared(memory_subscribers, dispatch[d].shared, new),
                         new, fp)
        left == dispatch[d].posting \ {i}
    IN /\ dispatch[d].pc = "gather"
       /\ i \in dispatch[d].posting
       /\ IF Persists(sub, outcome)
          THEN /\ FailpointOk(fp, 2)
               /\ redis_subscriber' = put.keys
               /\ redis_subscriber_ids' = put.ids
               /\ memory_subscribers' = put.dict
               /\ redis_ok' = RedisAfter(fp)
          ELSE /\ fp = 0
               /\ UNCHANGED <<subVars, redis_ok>>
       /\ dispatch' = [dispatch EXCEPT ![d].posting = left,
                                       ![d].pc = IF left = {} THEN "idle" ELSE "gather"]
       /\ streak' = [streak EXCEPT ![sub.id] =
                        IF outcome = "2xx" THEN 0 ELSE Bump(@)]
       /\ ret' = [op |-> "deliver", id |-> sub.id, outcome |-> outcome]

InitDispatchVars ==
    /\ dispatch = [d \in Dispatchers |-> IdleDispatch]
    /\ streak = [i \in SubIds |-> 0]

-----------------------------------------------------------------------------
(* Scheduler: src/refresher.py, periodic_refresh and trigger_refresh of     *)
(* src/main.py, extract_metadata of src/extractor.py                       *)
(*                                                                         *)
(* A sweep is a coroutine: it reads the sources and the clock, then takes  *)
(* the sources of its snapshot in turn. It is suspended while fetch_page   *)
(* runs; the clean and extract calls and the rest of the iteration follow  *)
(* the fetch in one step.                                                  *)

Tasks == {"timer", "trigger"}

MONITOR_DEFAULT_TTL == 300
REFRESH_INTERVAL == 300

\* extract_metadata(markdown_content, html_content, url) has three required
\* positional parameters; process_url_internal passes two arguments.
ExtractParams == 3
RefreshExtractArgs == 2

\* Binding the arguments of a call raises TypeError when a required
\* parameter is left without an argument.
CallRaisesTypeError(nargs, nparams) == nargs # nparams

\* word_count > 200 makes the page an article.
ArticleWords == 200

Untitled == <<"U">>

\* A fetched page: what the extractor reads from it.
Pages ==
    {[title |-> <<"a">>, description |-> "s1", markdown |-> md, words |-> w] :
        md \in {<< >>, <<"a">>}, w \in {ArticleWords, ArticleWords + 1}}

extract_metadata(page, url, now) ==
    LET title == IF page.title = << >> THEN Untitled ELSE page.title
    IN IF page.words > ArticleWords
       THEN ArticleSchema(url, title, page.markdown, page.description, now)
       ELSE GeneralPageSchema(url, title, page.description, now)

\* A naive reading taken as local time of a zone whose offset is the TTL.
AssumeUTC_shifted(last_checked_at, tz_naive) ==
    IF tz_naive THEN last_checked_at - MONITOR_DEFAULT_TTL ELSE last_checked_at

\* if last_checked.tzinfo is None: last_checked.replace(tzinfo=timezone.utc)
\* keeps the wall-clock reading.
AssumeUTC(last_checked_at, tz_naive) == last_checked_at

\* A check that also skips at the boundary.
IsFresh_inclusive(elapsed) == elapsed <= MONITOR_DEFAULT_TTL

\* if elapsed < MONITOR_DEFAULT_TTL: continue
IsFresh(elapsed) == elapsed < MONITOR_DEFAULT_TTL

IdleSweep ==
    [pc |-> "idle", now |-> 0, sources |-> << >>, shared |-> FALSE, idx |-> 1]

\* The record of an iteration that ended: how, and the page it worked on
\* (if it came to have one).
Refreshed(outcome, page) == [op |-> "refresh", outcome |-> outcome, page |-> page]

NoPage == [title |-> << >>, description |-> "s1", markdown |-> << >>, words |-> 0]

\* The for loop moves to the next source, or the sweep returns.
Advance(s) ==
    IF s.idx + 1 > Len(s.sources) THEN IdleSweep
    ELSE [s EXCEPT !.idx = s.idx + 1, !.pc = "loop"]

\* A sweep that gives up at the first error.
AfterError_abort(s) == IdleSweep

\* except Exception inside the for loop: log, next source.
AfterError(s) == Advance(s)

\* The source object of the current iteration.
HeldSource(t) == Held(sweep[t].sources[sweep[t].idx], sweep[t].shared, memory_store)

\* A loop that starts its next sweep without sleeping again.
WakeAfter_no_sleep(t, s) == wake

\* periodic_refresh sleeps REFRESH_INTERVAL again once its sweep returned.
WakeAfter(t, s) ==
    IF t = "timer" /\ s.pc = "idle" THEN clock + REFRESH_INTERVAL ELSE wake

\* The failpoint of a call made while Redis stays as it is.
SteadyFp == IF use_redis /\ ~redis_ok THEN 1 ELSE 0

\* refresh_monitored_sources_task up to the for loop: get_all_sources, now.
SweepStart(t, fp) ==
    \E listing \in Listings(redis_monitor, redis_monitor_ids, memory_store, fp) :
        LET s == IF listing = << >> THEN IdleSweep
                 ELSE [pc |-> "loop", now |-> clock, sources |-> listing,
                       shared |-> ~(use_redis /\ fp = 0), idx |-> 1]
        IN /\ sweep[t].pc = "idle"
           /\ t = "timer" => clock >= wake
           /\ GetAllSources(listing, fp)
           /\ sweep' = [sweep EXCEPT ![t] = s]
           /\ wake' = WakeAfter(t, s)
           /\ UNCHANGED <<clock, hashVars, use_redis, eventVars, sourceVars, subVars,
                          cacheVars, harnessVars, dispatchVars, ret>>

\* The TTL check of one iteration: skip, or call process_url_internal and
\* wait for fetch_page.
SweepCheck(t) ==
    LET s == sweep[t]
        src == HeldSource(t)
        skip == /\ src.last_checked_at # NoTime
                /\ IsFresh(s.now - AssumeUTC(src.last_checked_at, src.tz_naive))
        new == IF skip THEN Advance(s) ELSE [s EXCEPT !.pc = "crawling"]
    IN /\ s.pc = "loop"
       /\ sweep' = [sweep EXCEPT ![t] = new]
       /\ wake' = WakeAfter(t, new)
       /\ ret' = IF skip THEN Refreshed("skipped", NoPage) ELSE ret
       /\ UNCHANGED <<clock, hashVars, envVars, eventVars, sourceVars, subVars,
                      cacheVars, harnessVars, dispatchVars>>

\* uuid4(): an id no stored event has.
FreshEventId ==
    LET used == {e.id : e \in redis_timeline \cup Range(memory_events)}
    IN CHOOSE n \in 1..(Cardinality(used) + 1) :
          n \notin used /\ \A m \in 1..(n - 1) : m \in used

\* trigger_webhooks as called by the sweep, from the read of the
\* subscribers to the return of gather: the notify coroutines of todo
\* complete one after the other with the given outcomes.
RECURSIVE GatherAll(_, _, _, _, _)
GatherAll(st, subs, shared, todo, outcomes) ==
    IF todo = {} THEN st
    ELSE LET i == CHOOSE k \in todo : TRUE
             sub == Held(subs[i], shared, st.dict)
             new == IF PostRaises(outcomes[sub.id])
                    THEN AfterFailure(sub) ELSE AfterSuccess(sub)
             put == PutRecord(st.keys, st.ids, MutateShared(st.dict, shared, new),
                              new, SteadyFp)
         IN GatherAll(IF Persists(sub, outcomes[sub.id]) THEN put ELSE st,
                      subs, shared, todo \ {i}, outcomes)

SweepDispatch(event, outcomes) ==
    LET fp == SteadyFp
        listing == CHOOSE l \in Listings(redis_subscriber, redis_subscriber_ids,
                                         memory_subscribers, fp) : TRUE
        run == BeginDispatch(event, listing, ~(use_redis /\ fp = 0))
    IN GatherAll([keys |-> redis_subscriber, ids |-> redis_subscriber_ids,
                  dict |-> memory_subscribers],
                 run.subs, run.shared, run.posting, outcomes)

\* The iteration after process_url_internal's extract call returned: the
\* cache update, the fingerprint, the three-way branch.
Refresh(t, src, page, outcomes) ==
    LET s == sweep[t]
        article == extract_metadata(page, src.url, clock)
        new_hash == compute_content_hash(article)
        kind == Classify(src.last_content_hash, new_hash)
        updated == [src EXCEPT !.last_checked_at = article.fetched_at,
                               !.tz_naive = FALSE,
                               !.last_content_hash =
                                   IF kind = "Unchanged" THEN @ ELSE new_hash]
        event == ChangeEvent(FreshEventId, src.url, src.id, article.fetched_at,
                             src.last_content_hash, new_hash)
        put == PutRecord(redis_monitor, redis_monitor_ids,
                         MutateShared(memory_store, s.shared, updated), updated,
                         SteadyFp)
        subs == SweepDispatch(event, outcomes)
    IN /\ SetArticle(src.url, article)
       /\ IF HashRaises(article)
          THEN /\ sweep' = [sweep EXCEPT ![t] = AfterError(s)]
               /\ ret' = Refreshed("hash_failed", page)
               /\ UNCHANGED <<eventVars, sourceVars, subVars>>
          ELSE /\ sweep' = [sweep EXCEPT ![t] = Advance(s)]
               /\ ret' = Refreshed(kind, page)
               /\ redis_monitor' = put.keys
               /\ redis_monitor_ids' = put.ids
               /\ memory_store' = put.dict
               /\ IF kind = "Changed"
                  THEN /\ redis_timeline' =
                              IF use_redis /\ redis_ok
                              THEN RedisAddEvent(redis_timeline, event)
                              ELSE redis_timeline
                       /\ memory_events' =
                              IF use_redis /\ redis_ok THEN memory_events
                              ELSE IF use_redis
                              THEN FallbackAddEvent(memory_events, event)
                              ELSE MemoryAddEvent(memory_events, event)
                       /\ redis_subscriber' = subs.keys
                       /\ redis_subscriber_ids' = subs.ids
                       /\ memory_subscribers' = subs.dict
                  ELSE UNCHANGED <<eventVars, subVars>>

\* The calls an iteration makes after the extract call returned, in the
\* order of the code, for each way the iteration ends; an exception out of
\* trigger_webhooks (dispatch_raised) ends the iteration at that call.
WritesOf(outcome, dispatch_raised) ==
    CASE outcome = "FirstCheck" -> <<"set_article", "add_source">>
      [] outcome = "Unchanged" -> <<"set_article", "add_source">>
      [] outcome = "Changed" /\ ~dispatch_raised ->
            <<"set_article", "add_change_event", "trigger_webhooks", "add_source">>
      [] outcome = "Changed" /\ dispatch_raised ->
            <<"set_article", "add_change_event", "trigger_webhooks">>
      [] outcome = "hash_failed" -> <<"set_article">>
      [] OTHER -> << >>

\* What stops process_url_internal, if anything.
PipelineFailure(fetched, cleaned) ==
    IF ~fetched THEN "crawl_failed"
    ELSE IF ~cleaned THEN "clean_failed"
    ELSE IF CallRaisesTypeError(RefreshExtractArgs, ExtractParams) THEN "extract_failed"
    ELSE "none"

\* fetch_page returns page or raises (fetched), clean_html returns or raises
\* (cleaned), extract_metadata is called, and the iteration runs to its end.
SweepCrawled(t, fetched, cleaned, page, outcomes) ==
    LET s == sweep[t]
        src == HeldSource(t)
        failure == PipelineFailure(fetched, cleaned)
    IN /\ s.pc = "crawling"
       /\ IF failure # "none"
          THEN /\ sweep' = [sweep EXCEPT ![t] = AfterError(s)]
               /\ ret' = Refreshed(failure, page)
               /\ UNCHANGED <<eventVars, sourceVars, subVars, cacheVars>>
          ELSE Refresh(t, src, page, outcomes)
       /\ wake' = WakeAfter(t, sweep'[t])
       /\ UNCHANGED <<clock, hashVars, envVars, harnessVars, dispatchVars>>

TickSeconds == MONITOR_DEFAULT_TTL \div TicksPerTTL

\* Time passes.
Tick ==
    /\ clock + TickSeconds <= MaxTicks * TickSeconds
    /\ clock' = clock + TickSeconds
    /\ UNCHANGED <<wake, sweep, hashVars, envVars, eventVars, sourceVars, subVars,
                   cacheVars, harnessVars, dispatchVars, ret>>

\* startup_event creates periodic_refresh, which first sleeps.
InitSweepVars ==
    /\ clock = 0
    /\ wake = REFRESH_INTERVAL
    /\ sweep = [t \in Tasks |-> IdleSweep]

-----------------------------------------------------------------------------
(* Event-store harness: events with fresh ids and any detected_at are       *)
(* appended, and the timeline is listed with any limit and since_time.     *)

EventIds == 1..MaxEvents
EventTimes == 1..MaxEventTime
Limits == 0..MaxLimit

StoredEvents == redis_timeline \cup Range(memory_events)

HarnessAppendEvent ==
    \E id \in EventIds, t \in EventTimes :
        /\ \A e \in StoredEvents : e.id # id
        /\ AddChangeEvent(ChangeEvent(id, U1, 1, t, H1, H2))
        /\ UNCHANGED <<hashVars, use_redis, redis_ok, sourceVars, subVars, cacheVars,
                       harnessVars, dispatchVars, sweepVars>>

HarnessListEvents ==
    \E limit \in Limits, since \in EventTimes \cup {NoTime} :
        /\ GetChangeEvents(limit, since)
        /\ UNCHANGED <<hashVars, use_redis, redis_ok, sourceVars, subVars, cacheVars,
                       harnessVars, dispatchVars, sweepVars>>

InitEnv ==
    /\ use_redis \in BOOLEAN
    /\ redis_ok = use_redis

InitEventVars ==
    /\ redis_timeline = {}
    /\ memory_events = << >>

InitEvents ==
    /\ InitHashVars /\ InitEnv /\ InitEventVars /\ InitSourceVars /\ InitSubVars
    /\ InitCacheVars /\ InitHarnessVars /\ InitDispatchVars /\ InitSweepVars /\ ret = NoCall

NextEvents ==
    \/ HarnessAppendEvent
    \/ HarnessListEvents
    \/ RedisFail
    \/ RedisRecover

SpecEvents == InitEvents /\ [][NextEvents]_vars

-----------------------------------------------------------------------------
(* Store harness: every Store write, delete and read and the cache's set    *)
(* and get, called with inputs from small sets under any pattern of Redis  *)
(* failures. pending remembers the last write whose Redis command raised,  *)
(* until Redis recovers or another write is made.                          *)

DefaultLimit == 50

HarnessSources ==
    {MonitoredSource(i, UrlOf(i), NoTime, NoHash) : i \in SourceIds}
    \cup {MonitoredSource(1, UrlOf(1), 1, H1)}

HarnessSubscribers ==
    {Subscriber(i, "cb", NoFilter, 0, TRUE) : i \in SubIds}
    \cup {Subscriber(1, "cb", U1, 1, TRUE)}

HarnessArticles ==
    {ArticleSchema(U1, <<"a">>, << >>, "s1", 1),
     ArticleSchema(U1, << >>, <<"a">>, "s1", 2),
     GeneralPageSchema(U1, <<"a">>, "s1", 1)}

HarnessEventTimes == {1, 2}

WriteCall(op, arg, fp) ==
    [op |-> op, arg |-> arg, redis_failed |-> (use_redis /\ fp # 0)]

\* Bookkeeping of a harness write with failpoint fp.
Written(op, arg, fp) ==
    /\ writes < MaxWrites
    /\ writes' = writes + 1
    /\ ret' = WriteCall(op, arg, fp)
    /\ pending' = IF use_redis /\ fp # 0 THEN WriteCall(op, arg, fp) ELSE NoCall

StorePutSource ==
    \E source \in HarnessSources, fp \in 0..2 :
        /\ AddSource(source, fp)
        /\ Written("add_source", source, fp)
        /\ UNCHANGED <<hashVars, use_redis, eventVars, subVars, cacheVars, dispatchVars, sweepVars>>

StoreDeleteSource ==
    \E id \in SourceIds, fp \in 0..2 :
        /\ DeleteSource(id, fp)
        /\ writes < MaxWrites
        /\ writes' = writes + 1
        /\ ret' = WriteCall("delete_source", id, fp)
        /\ pending' = NoCall
        /\ UNCHANGED <<hashVars, use_redis, eventVars, subVars, cacheVars, dispatchVars, sweepVars>>

StoreListSources ==
    \E fp \in 0..2 :
      \E listing \in Listings(redis_monitor, redis_monitor_ids, memory_store, fp) :
        /\ GetAllSources(listing, fp)
        /\ ret' = [op |-> "get_all_sources", redis_failed |-> (use_redis /\ fp # 0),
                   val |-> listing]
        /\ UNCHANGED <<hashVars, use_redis, eventVars, sourceVars, subVars,
                       cacheVars, harnessVars, dispatchVars, sweepVars>>

StorePutSubscriber ==
    \E sub \in HarnessSubscribers, fp \in 0..2 :
        /\ AddSubscriber(sub, fp)
        /\ Written("add_subscriber", sub, fp)
        /\ UNCHANGED <<hashVars, use_redis, eventVars, sourceVars, cacheVars,
                       dispatchVars, sweepVars>>

StoreDeleteSubscriber ==
    \E id \in SubIds, fp \in 0..2 :
        /\ DeleteSubscriber(id, fp)
        /\ writes < MaxWrites
        /\ writes' = writes + 1
        /\ ret' = WriteCall("delete_subscriber", id, fp)
        /\ pending' = NoCall
        /\ UNCHANGED <<hashVars, use_redis, eventVars, sourceVars, cacheVars,
                       dispatchVars, sweepVars>>

StoreListSubscribers ==
    \E fp \in 0..2 :
      \E listing \in Listings(redis_subscriber, redis_subscriber_ids,
                              memory_subscribers, fp) :
        /\ GetAllSubscribers(listing, fp)
        /\ ret' = [op |-> "get_all_subscribers",
                   redis_failed |-> (use_redis /\ fp # 0), val |-> listing]
        /\ UNCHANGED <<hashVars, use_redis, eventVars, sourceVars, subVars,
                       cacheVars, harnessVars, dispatchVars, sweepVars>>

StoreAppendEvent ==
    \E id \in EventIds, t \in HarnessEventTimes :
        /\ \A e \in StoredEvents : e.id # id
        /\ \A j \in EventIds : j < id => \E e \in StoredEvents : e.id = j
        /\ writes < MaxWrites
        /\ writes' = writes + 1
        /\ AddChangeEvent(ChangeEvent(id, U1, 1, t, H1, H2))
        /\ pending' = IF ret'.redis_failed THEN ret' ELSE NoCall
        /\ UNCHANGED <<hashVars, use_redis, redis_ok, sourceVars, subVars, cacheVars,
                       dispatchVars, sweepVars>>

\* get_change_events() with its default arguments.
StoreListEvents ==
    /\ GetChangeEvents(DefaultLimit, NoTime)
    /\ UNCHANGED <<hashVars, use_redis, redis_ok, sourceVars, subVars, cacheVars,
                   harnessVars, dispatchVars, sweepVars>>

StoreSetArticle ==
    \E article \in HarnessArticles :
        /\ SetArticle(article.url, article)
        /\ Written("set_article", article, IF redis_ok THEN 0 ELSE 1)
        /\ UNCHANGED <<hashVars, use_redis, redis_ok, eventVars, sourceVars, subVars,
                       dispatchVars, sweepVars>>

StoreGetArticle ==
    \E url \in {U1} :
        /\ ret' = [op |-> "get_article", url |-> url,
                   redis_failed |-> (use_redis /\ ~redis_ok),
                   val |-> get_article(url)]
        /\ UNCHANGED <<hashVars, use_redis, redis_ok, eventVars, sourceVars, subVars,
                       cacheVars, harnessVars, dispatchVars, sweepVars>>

\* GET /changes with the default limit, with and without include_uas. An
\* assignment to a stored event is a write of its own: the pending write is
\* no longer the last one.
StoreListChanges ==
    \E include_uas \in BOOLEAN :
        /\ ListChanges(DefaultLimit, NoTime, include_uas)
        /\ pending' = IF memory_events' # memory_events THEN NoCall ELSE pending
        /\ UNCHANGED <<hashVars, use_redis, redis_ok, sourceVars, subVars, cacheVars,
                       writes, dispatchVars, sweepVars>>

InitStore ==
    /\ InitHashVars /\ InitEnv /\ InitEventVars /\ InitSourceVars /\ InitSubVars
    /\ InitCacheVars /\ InitHarnessVars /\ InitDispatchVars /\ InitSweepVars /\ ret = NoCall

NextStore ==
    \/ StorePutSource
    \/ StoreDeleteSource
    \/ StoreListSources
    \/ StorePutSubscriber
    \/ StoreDeleteSubscriber
    \/ StoreListSubscribers
    \/ StoreAppendEvent
    \/ StoreListEvents
    \/ StoreSetArticle
    \/ StoreGetArticle
    \/ StoreListChanges
    \/ RedisFail
    \/ RedisRecover

SpecStore == InitStore /\ [][NextStore]_vars

-----------------------------------------------------------------------------
(* Dispatcher harness: subscribers register through POST /subscribe and     *)
(* trigger_webhooks is called, one call after the other, with events for   *)
(* either URL. The first subscriber takes every event and its endpoint may *)
(* answer 2xx, answer non-2xx or time out; the second may filter on a URL  *)
(* prefix and its endpoint is healthy.                                     *)

HarnessFilters(id) == IF id = 1 THEN {NoFilter} ELSE {NoFilter, U1}

HarnessOutcomes(id) == IF id = 1 THEN PostOutcomes ELSE {"2xx"}

\* subscribe_webhook: a new Subscriber (failure_count 0, active) is stored.
SubscribeWebhook ==
    \E id \in SubIds, fp \in 0..2 : \E filter \in HarnessFilters(id) :
        /\ id \notin redis_subscriber_ids \cup DOMAIN redis_subscriber
        /\ \A k \in 1..Len(memory_subscribers) : memory_subscribers[k].id # id
        /\ \A j \in SubIds : j < id =>
              \/ j \in DOMAIN redis_subscriber
              \/ \E k \in 1..Len(memory_subscribers) : memory_subscribers[k].id = j
        /\ AddSubscriber(Subscriber(id, "cb", filter, 0, TRUE), fp)
        /\ UNCHANGED <<hashVars, use_redis, eventVars, sourceVars, cacheVars,
                       harnessVars, dispatchVars, sweepVars, ret>>

HarnessTriggerWebhooks ==
    \E url \in Urls, fp \in 0..2 :
      \E listing \in Listings(redis_subscriber, redis_subscriber_ids,
                              memory_subscribers, fp) :
        /\ dispatch["harness"].pc = "idle"
        /\ GetAllSubscribers(listing, fp)
        /\ dispatch' = [dispatch EXCEPT !["harness"] =
               BeginDispatch(ChangeEvent(1, url, 1, 1, H1, H2), listing,
                             ~(use_redis /\ fp = 0))]
        /\ UNCHANGED <<hashVars, use_redis, eventVars, sourceVars, subVars, cacheVars,
                       harnessVars, streak, sweepVars, ret>>

HarnessDelivery ==
    \E i \in 1..Cardinality(SubIds), outcome \in PostOutcomes, fp \in 0..2 :
        /\ i \in dispatch["harness"].posting
        /\ outcome \in HarnessOutcomes(dispatch["harness"].subs[i].id)
        /\ DeliveryComplete("harness", i, outcome, fp)
        /\ UNCHANGED <<hashVars, use_redis, eventVars, sourceVars, cacheVars,
                       harnessVars, sweepVars>>

\* subscribe_webhook for the first subscriber.
OverlapSubscribe ==
    \E fp \in 0..1 :
        /\ 1 \notin redis_subscriber_ids \cup DOMAIN redis_subscriber
        /\ \A k \in 1..Len(memory_subscribers) : memory_subscribers[k].id # 1
        /\ AddSubscriber(Subscriber(1, "cb", NoFilter, 0, TRUE), fp)
        /\ UNCHANGED <<hashVars, use_redis, eventVars, sourceVars, cacheVars,
                       harnessVars, dispatchVars, sweepVars, ret>>

\* trigger_webhooks called by either caller while the other's call may be
\* awaiting its deliveries.
OverlapTriggerWebhooks ==
    \E d \in Dispatchers, fp \in 0..1 :
      \E listing \in Listings(redis_subscriber, redis_subscriber_ids,
                              memory_subscribers, fp) :
        /\ dispatch[d].pc = "idle"
        /\ GetAllSubscribers(listing, fp)
        /\ dispatch' = [dispatch EXCEPT ![d] =
               BeginDispatch(ChangeEvent(1, U1, 1, 1, H1, H2), listing,
                             ~(use_redis /\ fp = 0))]
        /\ UNCHANGED <<hashVars, use_redis, eventVars, sourceVars, subVars, cacheVars,
                       harnessVars, streak, sweepVars, ret>>

OverlapDelivery ==
    \E d \in Dispatchers, i \in 1..Cardinality(SubIds), outcome \in {"2xx", "timeout"},
       fp \in 0..1 :
        /\ i \in dispatch[d].posting
        /\ DeliveryComplete(d, i, outcome, fp)
        /\ UNCHANGED <<hashVars, use_redis, eventVars, sourceVars, cacheVars,
                       harnessVars, sweepVars>>

\* DELETE /subscribe/{id} for the first subscriber, stored somewhere, while
\* deliveries to it may be under way.
OverlapUnsubscribe ==
    \E fp \in 0..1 :
        /\ \/ 1 \in DOMAIN redis_subscriber
           \/ \E k \in 1..Len(memory_subscribers) : memory_subscribers[k].id = 1
        /\ DeleteSubscriber(1, fp)
        /\ writes < MaxUnsubscribes
        /\ writes' = writes + 1
        /\ ret' = WriteCall("delete_subscriber", 1, fp)
        /\ UNCHANGED <<hashVars, use_redis, eventVars, sourceVars, cacheVars,
                       pending, dispatchVars, sweepVars>>

InitOverlap ==
    /\ InitHashVars /\ InitEnv /\ InitEventVars /\ InitSourceVars /\ InitSubVars
    /\ InitCacheVars /\ InitHarnessVars /\ InitDispatchVars /\ InitSweepVars /\ ret = NoCall

NextOverlap ==
    \/ OverlapSubscribe
    \/ OverlapTriggerWebhooks
    \/ OverlapDelivery
    \/ OverlapUnsubscribe
    \/ RedisFail
    \/ RedisRecover

SpecOverlap == InitOverlap /\ [][NextOverlap]_vars

InitDispatch ==
    /\ InitHashVars /\ InitEnv /\ InitEventVars /\ InitSourceVars /\ InitSubVars
    /\ InitCacheVars /\ InitHarnessVars /\ InitDispatchVars /\ InitSweepVars /\ ret = NoCall

NextDispatch ==
    \/ SubscribeWebhook
    \/ HarnessTriggerWebhooks
    \/ HarnessDelivery
    \/ RedisFail
    \/ RedisRecover

SpecDispatch == InitDispatch /\ [][NextDispatch]_vars

-----------------------------------------------------------------------------
(* Scheduler harness: new sources are written through                      *)
(* MonitorService.add_source, time passes, the timer and POST /refresh     *)
(* start sweeps, Redis fails and recovers. The first source is written     *)
(* never checked or checked at time 0, without a hash or with H1; the      *)
(* second as monitor_source writes it, never checked and without a hash.   *)
(* A checked-at time is written timezone-aware or naive.                   *)

HarnessCheckedAt(id) == IF id = 1 THEN {NoTime, 0} ELSE {NoTime}

HarnessHashes(id) == IF id = 1 THEN {NoHash, H1} ELSE {NoHash}

\* A checked-at time is written timezone-aware or naive.
HarnessSource(id, lc, hash) ==
    LET source == MonitoredSource(id, UrlOf(id), lc, hash)
    IN IF lc = NoTime THEN {source} ELSE {source, WithNaiveCheckedAt(source)}

SweepPutSource ==
    \E id \in SourceIds, fp \in 0..1 :
      \E lc \in HarnessCheckedAt(id), hash \in HarnessHashes(id) :
       \E source \in HarnessSource(id, lc, hash) :
        /\ id \notin DOMAIN redis_monitor
        /\ \A k \in 1..Len(memory_store) : memory_store[k].id # id
        /\ AddSource(source, fp)
        /\ UNCHANGED <<hashVars, use_redis, eventVars, subVars, cacheVars, harnessVars,
                       dispatchVars, sweepVars, ret>>

HarnessSweepStart == \E t \in Tasks, fp \in 0..2 : SweepStart(t, fp)

HarnessSweepCheck == \E t \in Tasks : SweepCheck(t)

HarnessSweepCrawled ==
    \E t \in Tasks, fetched \in BOOLEAN, cleaned \in BOOLEAN :
      \E page \in IF fetched /\ cleaned THEN Pages ELSE {NoPage} :
        \E outcomes \in IF PipelineFailure(fetched, cleaned) = "none"
                        THEN [SubIds -> PostOutcomes]
                        ELSE {[i \in SubIds |-> "2xx"]} :
            SweepCrawled(t, fetched, cleaned, page, outcomes)

InitSweep ==
    /\ InitHashVars /\ InitEnv /\ InitEventVars /\ InitSourceVars /\ InitSubVars
    /\ InitCacheVars /\ InitHarnessVars /\ InitDispatchVars /\ InitSweepVars /\ ret = NoCall

NextSweep ==
    \/ SweepPutSource
    \/ Tick
    \/ HarnessSweepStart
    \/ HarnessSweepCheck
    \/ HarnessSweepCrawled
    \/ RedisFail
    \/ RedisRecover

SpecSweep == InitSweep /\ [][NextSweep]_vars

-----------------------------------------------------------------------------
(* Claims about listChangeEvents (SpecEvents) *)

\* The events of the backend that served the last get_change_events call.
ServedEvents ==
    IF ret.backend = "redis" THEN redis_timeline ELSE Range(memory_events)

Ascending(seq) ==
    \A i, j \in 1..Len(seq) : i < j => seq[i].detected_at <= seq[j].detected_at

Descending(seq) ==
    \A i, j \in 1..Len(seq) : i < j => seq[i].detected_at >= seq[j].detected_at

\* seq lists, without repetition, Min(limit, |Q|) events of Q.
CappedSelection(seq, Q, limit) ==
    /\ Range(seq) \subseteq Q
    /\ Cardinality(Range(seq)) = Len(seq)
    /\ Len(seq) = Min(limit, Cardinality(Q))

\* C5: a listing with since_time returns only events strictly after it, in
\* ascending detected_at order, and the limit oldest of them when more than
\* limit qualify, whichever backend serves the call.
C5_SinceAscendingOldest ==
    (ret.op = "get_change_events" /\ ret.since # NoTime) =>
        LET Q == {e \in ServedEvents : e.detected_at > ret.since}
        IN /\ CappedSelection(ret.val, Q, ret.limit)
           /\ Ascending(ret.val)
           /\ \A e \in Q \ Range(ret.val) :
                  \A r \in Range(ret.val) : r.detected_at <= e.detected_at

\* C5 restricted to calls the durable backend served (holds).
C5_SinceOnDurable ==
    (ret.op = "get_change_events" /\ ret.backend = "redis") => C5_SinceAscendingOldest

\* C6: a listing without since_time returns the limit events of greatest
\* detected_at (all of them when there are fewer), in descending order,
\* whichever backend serves the call.
C6_RecentDescending ==
    (ret.op = "get_change_events" /\ ret.since = NoTime) =>
        /\ CappedSelection(ret.val, ServedEvents, ret.limit)
        /\ Descending(ret.val)
        /\ \A e \in ServedEvents \ Range(ret.val) :
               \A r \in Range(ret.val) : r.detected_at >= e.detected_at

\* C6 restricted to limit >= 1 (holds on both backends).
C6_RecentPositiveLimit ==
    (ret.op = "get_change_events" /\ ret.limit >= 1) => C6_RecentDescending

\* C6 restricted to calls the memory implementation served (holds).
C6_RecentOnMemory ==
    (ret.op = "get_change_events" /\ ret.backend = "memory") => C6_RecentDescending

-----------------------------------------------------------------------------
(* Claims about the fingerprint (SpecHash) *)

SameContent == 
    /\ articles[1].title = articles[2].title
    /\ articles[1].main_text = articles[2].main_text

\* C9: two articles with equal title and equal main_text have equal
\* fingerprints whatever their summary and fetch timestamp are, and the
\* second, checked against the stored hash of the first, is Unchanged.
C9_FingerprintOnlyTitleAndText ==
    (digests.done /\ SameContent) =>
        /\ digests.a = digests.b
        /\ digests.class = "Unchanged"

\* C9's case: the same content re-fetched at another time with another
\* summary, hashed and classified.
C9_Witness ==
    /\ digests.done
    /\ SameContent
    /\ articles[1].fetched_at # articles[2].fetched_at
    /\ articles[1].summary # articles[2].summary
    /\ digests.class = "Unchanged"

\* C10: articles that differ in title or in main_text have different
\* fingerprints (the hashed serialization is injective on the pair).
C10_SerializationInjective ==
    (digests.done /\ ~SameContent) => digests.a # digests.b

-----------------------------------------------------------------------------
(* Claims about the fallback to memory (SpecStore) *)

\* The read of the same kind as a write.
ReadOf(op) ==
    CASE op = "add_source" -> "get_all_sources"
      [] op = "add_subscriber" -> "get_all_subscribers"
      [] op = "add_change_event" -> "get_change_events"
      [] op = "set_article" -> "get_article"

\* The last call was a read, made while Redis was still failing, of the kind
\* of the pending write (for the cache: of the URL written).
ReadAfterFailedWrite ==
    /\ pending # NoCall
    /\ ret.op = ReadOf(pending.op)
    /\ ret.redis_failed
    /\ ret.op = "get_article" => ret.url = pending.arg.url

C7_WitnessSource ==
    ReadAfterFailedWrite /\ pending.op = "add_source" /\ pending.arg \in Range(ret.val)

C7_WitnessSubscriber ==
    ReadAfterFailedWrite /\ pending.op = "add_subscriber" /\ pending.arg \in Range(ret.val)

C7_WitnessCache ==
    ReadAfterFailedWrite /\ pending.op = "set_article" /\ ret.val = pending.arg

-----------------------------------------------------------------------------
(* Claims about the circuit breaker (SpecDispatch) *)

\* The subscriber records the Store serves now.
ServedSubscribers ==
    IF use_redis /\ redis_ok
    THEN {redis_subscriber[k] : k \in redis_subscriber_ids \cap DOMAIN redis_subscriber}
    ELSE Range(memory_subscribers)

StoredSubscriber(id) == {s \in ServedSubscribers : s.id = id}

\* The subscribers whose delivery completes in this step.
Delivered(d) ==
    {dispatch[d].subs[i].id : i \in dispatch[d].posting \ dispatch'[d].posting}

\* C4: across sequential dispatch calls, when a delivery completes as the
\* subscriber's 5th failure in a row (a raised request or a non-2xx
\* response) the stored subscriber is inactive afterwards, no delivery is
\* attempted to a subscriber that already failed 5 times in a row, and a
\* successful delivery before that leaves the stored failure_count at 0.
C4_CircuitBreaker ==
    [][\A d \in Dispatchers : \A id \in Delivered(d) :
          /\ streak[id] < FailureThreshold
          /\ streak'[id] >= FailureThreshold =>
                \A s \in StoredSubscriber(id)' : ~s.is_active
          /\ streak'[id] = 0 =>
                \A s \in StoredSubscriber(id)' : s.failure_count = 0]_vars

-----------------------------------------------------------------------------
(* Claims about the sweep (SpecSweep) *)

\* The source records the Store serves now.
ServedSources ==
    IF use_redis /\ redis_ok
    THEN {redis_monitor[k] : k \in redis_monitor_ids \cap DOMAIN redis_monitor}
    ELSE Range(memory_store)

StoredSource(id) == {s \in ServedSources : s.id = id}

\* Task t makes the TTL check of an iteration in this step.
ChecksTTL(t) == sweep[t].pc = "loop" /\ sweep'[t] # sweep[t]

\* Task t is resumed after fetch_page and ends an iteration in this step.
EndsRefresh(t) == sweep[t].pc = "crawling" /\ sweep'[t] # sweep[t]

PipelineFailures == {"crawl_failed", "clean_failed", "extract_failed"}

\* C3: in a sweep started at now, a source with a non-null last_checked_at
\* is skipped (no fetch, the stored sources, the cache and the timeline
\* unchanged) when now - last_checked_at < TTL, and is fetched when
\* now - last_checked_at >= TTL.
C3_TTLGating ==
    [][\A t \in Tasks :
          ChecksTTL(t) /\ HeldSource(t).last_checked_at # NoTime =>
             IF sweep[t].now - HeldSource(t).last_checked_at < MONITOR_DEFAULT_TTL
             THEN /\ sweep'[t].pc \in {"loop", "idle"}
                  /\ sweep'[t].pc = "loop" => sweep'[t].idx = sweep[t].idx + 1
                  /\ UNCHANGED <<sourceVars, cacheVars, eventVars>>
             ELSE /\ sweep'[t].pc = "crawling"
                  /\ sweep'[t].idx = sweep[t].idx]_vars

\* A source checked exactly TTL before the sweep started is being fetched,
\* after an iteration that skipped.
C3_Witness ==
    /\ ret = Refreshed("skipped", NoPage)
    /\ \E t \in Tasks :
          /\ sweep[t].pc = "crawling"
          /\ HeldSource(t).last_checked_at # NoTime
          /\ sweep[t].now - HeldSource(t).last_checked_at = MONITOR_DEFAULT_TTL

\* C8: when the pipeline fails for a source (fetch, clean or extract
\* error), the stored sources and the timeline are unchanged and the sweep
\* moves to the next source of its snapshot (or returns after the last).
C8_FailureSkipsSource ==
    [][\A t \in Tasks :
          EndsRefresh(t) /\ ret'.outcome \in PipelineFailures =>
             /\ UNCHANGED <<sourceVars, eventVars>>
             /\ IF sweep[t].idx < Len(sweep[t].sources)
                THEN /\ sweep'[t].pc = "loop"
                     /\ sweep'[t].idx = sweep[t].idx + 1
                     /\ sweep'[t].sources = sweep[t].sources
                ELSE sweep'[t].pc = "idle"]_vars

\* A sweep is at its second source after the pipeline failed for the first.
C8_Witness ==
    /\ ret.op = "refresh" /\ ret.outcome \in PipelineFailures
    /\ \E t \in Tasks :
          /\ sweep[t].pc = "loop" /\ sweep[t].idx = 2
          /\ \A u \in Tasks \ {t} : sweep[u].pc = "idle"

\* C2: a refresh of a source without a stored hash whose fetch and clean
\* succeeded appends no event and changes no subscriber, and afterwards the
\* stored hash is the fingerprint of the fetched article and the stored
\* last_checked_at its fetch timestamp.
C2_FirstCheckSetsHash ==
    [][\A t \in Tasks :
          /\ EndsRefresh(t)
          /\ HeldSource(t).last_content_hash = NoHash
          /\ ret'.outcome \notin {"crawl_failed", "clean_failed"}
          /\ ~HashRaises(extract_metadata(ret'.page, HeldSource(t).url, clock))
          => LET article == extract_metadata(ret'.page, HeldSource(t).url, clock)
             IN /\ UNCHANGED <<eventVars, subVars, dispatchVars>>
                /\ \A id \in {HeldSource(t).id} : \E s \in StoredSource(id)' :
                      /\ s.last_content_hash = compute_content_hash(article)
                      /\ s.last_checked_at = article.fetched_at]_vars

\* C1: a refresh of a source with stored hash H1 whose fetch and clean
\* succeeded on an article with fingerprint H2 # H1 appends exactly one
\* event (old_hash H1, new_hash H2, content_updated) and stores H2; one
\* that yields the stored hash again appends no event.
C1_ChangeEmitsOneEvent ==
    [][\A t \in Tasks :
          /\ EndsRefresh(t)
          /\ HeldSource(t).last_content_hash # NoHash
          /\ ret'.outcome \notin {"crawl_failed", "clean_failed"}
          /\ ~HashRaises(extract_metadata(ret'.page, HeldSource(t).url, clock))
          => LET H1_ == HeldSource(t).last_content_hash
                 H2_ == compute_content_hash(
                            extract_metadata(ret'.page, HeldSource(t).url, clock))
                 added == StoredEvents' \ StoredEvents
             IN IF H2_ # H1_
                THEN /\ Cardinality(added) = 1
                     /\ \A e \in added :
                           /\ e.old_hash = H1_ /\ e.new_hash = H2_
                           /\ e.change_type = "content_updated"
                     /\ \A id \in {HeldSource(t).id} : \E s \in StoredSource(id)' :
                           s.last_content_hash = H2_
                ELSE added = {}]_vars

-----------------------------------------------------------------------------
(* Claims about the dispatcher's targets (SpecDispatch) *)

\* Caller d's trigger_webhooks call starts in this step.
StartsDispatch(d) == dispatch[d].pc = "idle" /\ dispatch'[d] # dispatch[d]

\* The subscriber records the Store holds under id, on either backend.
RecordsOf(id) ==
    {redis_subscriber[k] : k \in DOMAIN redis_subscriber \cap {id}}
        \cup {s \in Range(memory_subscribers) : s.id = id}

Matches(sub, event) ==
    sub.is_active /\ (sub.url_prefix_filter = NoFilter
                      \/ StartsWith(event.url, sub.url_prefix_filter))

\* C11: a dispatch attempts a delivery to exactly the subscribers the Store
\* serves as active and whose filter is unset or a prefix of the event's
\* URL; the start of a dispatch changes no subscriber, deliveries complete
\* only for attempted subscribers, and a delivery changes no record of any
\* other subscriber.
C11_DeliveryTargets ==
    [][\A d \in Dispatchers :
          /\ StartsDispatch(d) =>
                /\ dispatch'[d].attempted =
                      {s.id : s \in {x \in ServedSubscribers' :
                                        Matches(x, dispatch'[d].event)}}
                /\ UNCHANGED subVars
          /\ Delivered(d) \subseteq dispatch[d].attempted
          /\ Delivered(d) # {} =>
                \A id \in SubIds \ Delivered(d) : RecordsOf(id)' = RecordsOf(id)]_vars

\* A dispatch is under way that delivers to one subscriber and leaves out
\* another that is served active with a filter the event's URL lacks.
C11_Witness ==
    \E d \in Dispatchers :
        /\ dispatch[d].pc = "gather"
        /\ dispatch[d].attempted # {}
        /\ \E s \in ServedSubscribers :
              /\ s.id \notin dispatch[d].attempted
              /\ s.is_active
              /\ ~StartsWith(dispatch[d].event.url, s.url_prefix_filter)

\* The subscriber object the coroutine of caller d for subscriber id holds.
HeldFor(d, id) ==
    HeldSubscriber(d, CHOOSE i \in 1..Len(dispatch[d].subs) : dispatch[d].subs[i].id = id)

\* C12: a delivery whose request completes with a non-2xx response
\* increments the subscriber's failure_count by 1, sets is_active to false
\* when the new count reaches 5, and the result is what the Store serves.
C12_NonSuccessCounts ==
    [][\A d \in Dispatchers : \A id \in Delivered(d) :
          ret'.outcome = "non_2xx" =>
             \A fc \in {HeldFor(d, id).failure_count} :
             \A active \in {HeldFor(d, id).is_active} :
                \E s \in StoredSubscriber(id)' :
                   /\ s.failure_count = fc + 1
                   /\ s.is_active = (active /\ fc + 1 < FailureThreshold)]_vars

-----------------------------------------------------------------------------
(* Claims about the deliveries of one dispatch (SpecDispatch) *)

\* The subscribers whose POST is under way for caller d.
InFlight(d) == {dispatch[d].subs[i].id : i \in dispatch[d].posting}

\* C13: within one dispatch the POSTs to all matching subscribers are under
\* way together from the start, a delivery that completes (whatever its
\* outcome) leaves every other subscriber's POST under way and every other
\* subscriber's records unchanged, and the dispatch returns once the last
\* delivery completed.
C13_IndependentDeliveries ==
    [][\A d \in Dispatchers :
          /\ StartsDispatch(d) =>
                InFlight(d)' = {s.id : s \in {x \in ServedSubscribers' :
                                                 Matches(x, dispatch'[d].event)}}
          /\ \A id \in Delivered(d) :
                /\ InFlight(d)' = InFlight(d) \ {id}
                /\ \A other \in SubIds \ {id} : RecordsOf(other)' = RecordsOf(other)
                /\ dispatch'[d].pc = IF InFlight(d)' = {} THEN "idle" ELSE "gather"]_vars

\* The delivery to the first subscriber timed out while the POST to the
\* second is still under way.
C13_Witness ==
    /\ ret = [op |-> "deliver", id |-> 1, outcome |-> "timeout"]
    /\ dispatch["harness"].pc = "gather"
    /\ InFlight("harness") = {2}

\* C14 as stated: a source whose last_checked_at is null or naive is fetched
\* in the sweep, whatever the time elapsed.
C14_MissingOrNaiveIsDue ==
    [][\A t \in Tasks :
          /\ ChecksTTL(t)
          /\ HeldSource(t).last_checked_at = NoTime \/ HeldSource(t).tz_naive
          => sweep'[t].pc = "crawling"]_vars

\* C14 amended: a source whose last_checked_at is null is fetched whatever
\* the time elapsed; a naive last_checked_at is read as UTC and the source
\* is fetched exactly when now - last_checked_at >= TTL, skipped otherwise.
C14_NaiveReadAsUTC ==
    [][\A t \in Tasks :
          ChecksTTL(t) =>
             /\ HeldSource(t).last_checked_at = NoTime => sweep'[t].pc = "crawling"
             /\ HeldSource(t).last_checked_at # NoTime /\ HeldSource(t).tz_naive =>
                   (sweep'[t].pc = "crawling") =
                       (sweep[t].now - HeldSource(t).last_checked_at
                            >= MONITOR_DEFAULT_TTL)]_vars

\* An iteration just skipped the source whose last_checked_at is naive.
C14_Witness ==
    /\ ret = Refreshed("skipped", NoPage)
    /\ \E s \in ServedSources : s.last_checked_at # NoTime /\ s.tz_naive

\* What the cache backend in use holds under url (NoArticle when nothing).
CachedUnder(url) ==
    IF use_redis /\ redis_ok
    THEN IF url \in DOMAIN redis_cache THEN redis_cache[url] ELSE NoArticle
    ELSE IF url \in DOMAIN memory_cache THEN memory_cache[url] ELSE NoArticle

\* C15: a refresh whose fetch and clean succeeded leaves the article
\* extracted from the fetched page in the cache under the source's URL,
\* whatever the outcome; a skipped source and a source whose fetch or clean
\* failed cause no cache write.
C15_FetchUpdatesCache ==
    [][\A t \in Tasks :
          /\ ChecksTTL(t) => UNCHANGED cacheVars
          /\ EndsRefresh(t) =>
                IF ret'.outcome \in {"crawl_failed", "clean_failed"}
                THEN UNCHANGED cacheVars
                ELSE \A url \in {HeldSource(t).url} :
                        CachedUnder(url)' = extract_metadata(ret'.page, url, clock)]_vars

\* Task t ends, in this step, the refresh of a source that has a stored
\* hash, on a fetched and cleaned article page whose fingerprint differs
\* from it.
RefreshesChanged(t) ==
    /\ EndsRefresh(t)
    /\ HeldSource(t).last_content_hash # NoHash
    /\ ret'.outcome \notin {"crawl_failed", "clean_failed"}
    /\ ~HashRaises(extract_metadata(ret'.page, HeldSource(t).url, clock))
    /\ compute_content_hash(extract_metadata(ret'.page, HeldSource(t).url, clock))
          # HeldSource(t).last_content_hash

Precedes(calls, a, b) ==
    \E i, j \in 1..Len(calls) : i < j /\ calls[i] = a /\ calls[j] = b

\* C16: the refresh of a source whose content changed persists the source,
\* then appends the event, then invokes the dispatcher.
C16_PersistAppendDispatch ==
    [][\A t \in Tasks :
          RefreshesChanged(t) =>
             /\ Precedes(WritesOf(ret'.outcome, FALSE), "add_source", "add_change_event")
             /\ Precedes(WritesOf(ret'.outcome, FALSE), "add_change_event",
                         "trigger_webhooks")]_vars

\* C17: the refresh of a source whose content changed persists the source's
\* new hash and checked-at also when the dispatcher call raises, invokes
\* the dispatcher once, and the sweep moves to the next source.
C17_DispatchFailureAbsorbed ==
    [][\A t \in Tasks :
          RefreshesChanged(t) =>
             /\ \E i \in 1..Len(WritesOf(ret'.outcome, TRUE)) :
                   WritesOf(ret'.outcome, TRUE)[i] = "add_source"
             /\ Cardinality({i \in 1..Len(WritesOf(ret'.outcome, TRUE)) :
                    WritesOf(ret'.outcome, TRUE)[i] = "trigger_webhooks"}) = 1
             /\ sweep'[t].pc = IF sweep[t].idx < Len(sweep[t].sources)
                               THEN "loop" ELSE "idle"]_vars

-----------------------------------------------------------------------------
(* Claims about backend errors (SpecStore) *)

StoreOps ==
    {"add_source", "delete_source", "get_all_sources", "add_subscriber",
     "delete_subscriber", "get_all_subscribers", "add_change_event",
     "get_change_events", "set_article", "get_article"}

\* C18: every Store and ContentCache call returns (none raises); when a
\* Redis command of the call failed, a write has put its value into the
\* in-memory mirror, a delete has removed the id from it, and a read has
\* returned the mirror's content (None or nothing when it holds nothing).
C18_BackendErrorsAbsorbed ==
    (ret.op \in StoreOps /\ ret.redis_failed) =>
             CASE ret.op = "add_source" -> ret.arg \in Range(memory_store)
               [] ret.op = "add_subscriber" -> ret.arg \in Range(memory_subscribers)
               [] ret.op = "add_change_event" -> ret.arg \in Range(memory_events)
               [] ret.op = "set_article" ->
                     /\ ret.arg.url \in DOMAIN memory_cache
                     /\ memory_cache[ret.arg.url] = ret.arg
               [] ret.op = "delete_source" ->
                     \A s \in Range(memory_store) : s.id # ret.arg
               [] ret.op = "delete_subscriber" ->
                     \A s \in Range(memory_subscribers) : s.id # ret.arg
               [] ret.op = "get_all_sources" -> ret.val = memory_store
               [] ret.op = "get_all_subscribers" -> ret.val = memory_subscribers
               [] ret.op = "get_change_events" ->
                     ret.val = MemoryGetEvents(memory_events, ret.limit, ret.since)
               [] ret.op = "get_article" ->
                     ret.val = IF ret.url \in DOMAIN memory_cache
                               THEN memory_cache[ret.url] ELSE NoArticle

\* A listing whose Redis command failed returned the sources of the mirror.
C18_Witness ==
    /\ ret.op = "get_all_sources"
    /\ ret.redis_failed
    /\ ret.val # << >>

-----------------------------------------------------------------------------
(* Claims about the event timeline as a record (SpecStore) *)

\* C19: the timeline is append-only: every stored event is still stored,
\* with all of its fields unchanged, after any step (append, listing with
\* or without the current-article enrichment, deletion of a source or of a
\* subscriber, Redis failing or recovering).
C19_TimelineAppendOnly ==
    [][\A e \in StoredEvents : e \in StoredEvents']_vars

-----------------------------------------------------------------------------
(* Claims about the stored check time (SpecSweep) *)

-----------------------------------------------------------------------------
(* Claims about deletion (SpecStore) *)

\* C21: a get_all_sources call that follows a completed delete_source(id),
\* with no registration in between and whatever Redis did in between
\* (failed, recovered), returns no source with that id.
C21_DeletedNotListed ==
    [][(ret.op = "delete_source" /\ ret'.op = "get_all_sources") =>
          \A s \in Range(ret'.val) : s.id # ret.arg]_vars

-----------------------------------------------------------------------------
(* Claims about the scheduling of sweeps (SpecSweep) *)

\* periodic_refresh calls refresh_monitored_sources_task in this step.
TimerStarts ==
    sweep["timer"].pc = "idle" /\ (sweep'["timer"].pc # "idle" \/ wake' # wake)

\* The sweep called by periodic_refresh returns in this step.
TimerReturns ==
    sweep'["timer"].pc = "idle" /\ (sweep["timer"].pc # "idle" \/ wake' # wake)

\* The sources a sweep is fetching: the one of its current iteration.
Fetching(t) == IF sweep[t].pc = "crawling" THEN {sweep[t].idx} ELSE {}

-----------------------------------------------------------------------------
(* Claims about the values Store reads hand out (SpecStore) *)

\* GET /changes is served in this step.
ServesListChanges == ret'.op = "list_changes" /\ redis_ok' = redis_ok

\* C23: what a caller does to the values a Store read returned is not seen
\* by later Store reads unless it is written back: list_changes, which
\* makes no Store write, leaves what get_change_events returns (for any
\* limit and since_time) as it was, also when it has set current_article
\* on the events it got.
C23_ReadsReturnDetachedCopies ==
    [][ServesListChanges =>
          \A limit \in {1, DefaultLimit}, since \in {NoTime, 1} :
             get_change_events(limit, since)' = get_change_events(limit, since)]_vars

-----------------------------------------------------------------------------
(* Claims about the order of the in-memory events (SpecStore) *)

\* C24: after an add_change_event that put its event into memory_events
\* (without Redis, or in the except branch), memory_events is in ascending
\* detected_at order, events of equal detected_at in insertion order (the
\* harness hands out event ids in insertion order).
C24_MemoryEventsSorted ==
    (ret.op = "add_change_event" /\ ret.arg \in Range(memory_events)) =>
        \A i, j \in 1..Len(memory_events) :
           i < j =>
              \/ memory_events[i].detected_at < memory_events[j].detected_at
              \/ /\ memory_events[i].detected_at = memory_events[j].detected_at
                 /\ memory_events[i].id < memory_events[j].id

-----------------------------------------------------------------------------
(* Claims about the refresh pipeline (SpecSweep) *)

\* C25: a refresh whose fetch and clean succeeded (on a page the extractor
\* of the read path turns into an article) does not end as a refresh
\* failure: the iteration goes on to the fingerprint and the three-way
\* branch.
C25_RefreshReachesClassification ==
    [][\A t \in Tasks :
          EndsRefresh(t) /\ ret'.outcome \notin {"crawl_failed", "clean_failed"} =>
             ret'.outcome \in {"FirstCheck", "Unchanged", "Changed", "hash_failed"}]_vars

\* C26: a refresh whose fetch and clean succeeded on a page the extractor
\* turns into a GeneralPageSchema ends classified (first check, unchanged
\* or changed) and leaves the source stored with the page's fetch
\* timestamp as last_checked_at.
C26_GeneralPageAdvancesCheckedAt ==
    [][\A t \in Tasks :
          /\ EndsRefresh(t)
          /\ ret'.outcome \notin {"crawl_failed", "clean_failed"}
          /\ extract_metadata(ret'.page, HeldSource(t).url, clock).type = "general_page"
          => /\ ret'.outcome \in {"FirstCheck", "Unchanged", "Changed"}
             /\ \A id \in {HeldSource(t).id} : \E s \in StoredSource(id)' :
                   s.last_checked_at = clock]_vars

HashChain(events) ==
    \A e \in events :
       /\ e.old_hash # NoHash
       /\ e.old_hash # e.new_hash
       /\ \A p \in events :
             (p.id < e.id /\ \A q \in events : ~(p.id < q.id /\ q.id < e.id))
                => e.old_hash = p.new_hash

-----------------------------------------------------------------------------
(* Claims about overlapping dispatches (SpecOverlap) *)

\* Every subscriber record either backend holds.
SubscriberRecords ==
    {redis_subscriber[k] : k \in DOMAIN redis_subscriber} \cup Range(memory_subscribers)

\* C29: a delivery that completes for a subscriber leaves a record of it
\* that had is_active = false with is_active = false, in Redis and in
\* memory, also when the dispatch read the subscriber while it was active.
C29_DisabledStaysDisabled ==
    [][\A d \in Dispatchers : \A id \in Delivered(d) :
          /\ (id \in DOMAIN redis_subscriber /\ ~redis_subscriber[id].is_active) =>
                ~redis_subscriber'[id].is_active
          /\ \A s \in Range(memory_subscribers) :
                (s.id = id /\ ~s.is_active) =>
                   \A n \in Range(memory_subscribers') : n.id = id => ~n.is_active]_vars

\* C30: every stored subscriber has 0 <= failure_count <= 5 and is
\* inactive exactly when failure_count = 5, on both backends and with
\* dispatches overlapping.
C30_FailureCountBounded ==
    \A s \in SubscriberRecords :
       /\ s.failure_count \in 0..FailureThreshold
       /\ ~s.is_active <=> s.failure_count = FailureThreshold

\* C31: a delivery that completes for a subscriber of which no backend
\* holds a record any more (it was deleted after the dispatch had read it)
\* stores no record of it: the deleted subscriber is not listed and not
\* delivered to again.
C31_DeletedSubscriberStaysDeleted ==
    [][\A d \in Dispatchers : \A id \in Delivered(d) :
          (\A s \in SubscriberRecords : s.id # id) =>
             \A s \in SubscriberRecords' : s.id # id]_vars

-----------------------------------------------------------------------------
(* Specifications *)

NextHash == ComputeHashes

InitHash ==
    /\ InitHashPairs /\ InitEnv /\ InitEventVars /\ InitSourceVars /\ InitSubVars
    /\ InitCacheVars /\ InitHarnessVars /\ InitDispatchVars /\ InitSweepVars /\ ret = NoCall

SpecHash == InitHash /\ [][NextHash]_vars

====
